---- MODULE Spec2Model ----
(***************************************************************************)
(* Model of lbl.py: the instance generator make_instances and the training *)
(* loop of train_lbl (epoch loop, minibatch loop, validation checkpoint,   *)
(* patience, learning-rate schedules, final summary).                      *)
(*                                                                         *)
(* Numeric abstractions:                                                   *)
(*  - a float rate or parameter is an exact rational <<num, den>>, den > 0 *)
(*  - a perplexity is a small positive integer, Inf (np.inf) or NaN        *)
(*    (np.mean of an empty list of batches); theano's compiled functions   *)
(*    are deterministic, so the dev/test perplexity of the current         *)
(*    parameters (dev_now, test_now) changes only when train_model runs    *)
(*  - the four parameter tensors are one scalar each                       *)
(***************************************************************************)
EXTENDS Integers, Sequences, FiniteSets, TLC

\* ------------------------------------------------------------------ bounds
MaxEpochs == 2
MaxBatches == 2
MaxPpl == 2
MaxLen == 2
MaxContext == 2
MaxSentences == 2

\* --------------------------------------------------------------- constants
Inf == 1000
NaN == -1
patience_incr == 2
improvement_thrs == <<995, 1000>>
None == <<>>

VARIABLES
  \* configuration of the run (arguments of train_lbl, derived sizes)
  rate_update, epochs, n_train_batches, validation_freq,
  \* locals of train_lbl
  pc, exc, epoch, mb_iter, itr, patience, learning_rate,
  last_epoch_dev_ppl, best_dev_ppl, test_ppl, done_looping,
  \* the model's shared parameters and the compiled update
  params, updates_rate, dev_now, test_now,
  \* observations of the run (history)
  steps, prev_params, last_grad, step_lr, lr_before, epoch_end_ppls,
  checkpoint_log, stepped_epochs, epochs_done, reached, late_steps, reported,
  \* make_instances
  mi_pc, corpus, context_sz, mi_i, data, labels

cfgvars == <<rate_update, epochs, n_train_batches, validation_freq>>
locvars == <<pc, exc, epoch, mb_iter, itr, patience, learning_rate,
             last_epoch_dev_ppl, best_dev_ppl, test_ppl, done_looping>>
modvars == <<params, updates_rate, dev_now, test_now>>
obsvars == <<steps, prev_params, last_grad, step_lr, lr_before,
             epoch_end_ppls, checkpoint_log, stepped_epochs, epochs_done,
             reached, late_steps, reported>>
trainvars == <<cfgvars, locvars, modvars, obsvars>>
mivars == <<mi_pc, corpus, context_sz, mi_i, data, labels>>
vars == <<trainvars, mivars>>

\* ---------------------------------------------------------------- helpers
Max(a, b) == IF a >= b THEN a ELSE b
Last(s) == s[Len(s)]

\* exact rationals standing for floats
RatEq(a, b) == a[1] * b[2] = b[1] * a[2]
RatMul(a, b) == <<a[1] * b[1], a[2] * b[2]>>
RatSub(a, b) == <<a[1] * b[2] - b[1] * a[2], a[2] * b[2]>>
RatHalf(a) == <<a[1], 2 * a[2]>>

\* IEEE comparisons on perplexities: every comparison with NaN is false
PplVals == (1..MaxPpl) \cup {NaN}
PplLt(a, b) == a # NaN /\ b # NaN /\ a < b
PplGt(a, b) == PplLt(b, a)
\* a < b * improvement_thrs (inf * 0.995 = inf)
PplLtThrs(a, b) ==
  /\ a # NaN /\ b # NaN
  /\ IF b = Inf THEN a < Inf
     ELSE a * improvement_thrs[2] < b * improvement_thrs[1]

\* python truthiness of the patience argument: None and 0 are false
Truthy(p) == p # None /\ p[1] # 0

ParamNames == {"R", "Q", "C", "b"}
Gradients == [ParamNames -> {-1, 1}]
RateNames == {"simple", "adaptive", "constant", "bogus"}
ValidRates == {"simple", "adaptive", "constant"}
InitRates == {<<1, 1>>, <<1, 2>>}
Patiences == {None, <<-1>>, <<0>>, <<1>>, <<2>>}
Freqs == {1, 2}

\* names bound at module level of lbl.py (imports, logger, class, functions)
ModuleGlobals ==
  {"Dictionary", "load_corpus", "cPickle", "np", "theano", "T", "math",
   "zip", "time", "logging", "logger", "LogBilinearLanguageModel",
   "make_instances", "train_lbl"}
\* free names the validation block of the checkpoint reads
ValidationBlockNames == {"validate_model", "n_valid_batches", "numpy"}
ValidationBlockResolves == ValidationBlockNames \subseteq ModuleGlobals

\* ------------------------------------------------------- train_lbl: pieces

\* mutant of SgdUpdate: the step moves along the gradient (param + rate * g)
SgdUpdateAscent(param, rate, gparam) ==
  RatSub(param, RatMul(rate, <<0 - gparam, 1>>))

\* one gradient-descent update of a parameter: param - learning_rate * gparam
SgdUpdate(param, rate, gparam) == RatSub(param, RatMul(rate, <<gparam, 1>>))

\* mutant of SimpleRate: integer division, 1 / (epoch + 1)
SimpleRateIntDiv(e) == <<1 \div (e + 1), 1>>

\* 'simple' schedule: learning_rate = 1.0 / (epoch + 1)
SimpleRate(e) == <<1, e + 1>>

\* mutant of AdaptiveRate: halves when the perplexity did not improve (>=)
AdaptiveRateGe(rate, this_ppl, last_ppl) ==
  IF this_ppl # NaN /\ last_ppl # NaN /\ this_ppl >= last_ppl
    THEN RatHalf(rate) ELSE rate

\* 'adaptive' schedule: halve when this epoch's dev ppl > last epoch's
AdaptiveRate(rate, this_ppl, last_ppl) ==
  IF PplGt(this_ppl, last_ppl) THEN RatHalf(rate) ELSE rate

\* the perplexity of the parameters after a train_model call: NaN stays NaN
\* (an empty dev/test set has no batches whatever the parameters are)
PplAfter(now) == IF now = NaN THEN {NaN} ELSE 1..MaxPpl

\* state of the trainer after lines 143-232
Init ==
  /\ rate_update \in RateNames
  /\ epochs \in 0..MaxEpochs
  /\ n_train_batches \in 0..MaxBatches
  /\ validation_freq \in Freqs
  /\ patience \in Patiences
  /\ learning_rate \in InitRates
  /\ updates_rate = learning_rate
  /\ dev_now \in PplVals
  /\ test_now \in {NaN, 1}
  /\ params = [p \in ParamNames |-> <<0, 1>>]
  /\ pc = "for_epoch" /\ exc = "none"
  /\ epoch = -1 /\ mb_iter = 0 /\ itr = -1
  /\ last_epoch_dev_ppl = Inf /\ best_dev_ppl = Inf /\ test_ppl = Inf
  /\ done_looping = FALSE
  /\ steps = 0 /\ prev_params = params
  /\ last_grad = [p \in ParamNames |-> 0]
  /\ step_lr = learning_rate /\ lr_before = learning_rate
  /\ epoch_end_ppls = <<>> /\ checkpoint_log = <<>>
  /\ stepped_epochs = 0 /\ epochs_done = 0
  /\ reached = FALSE /\ late_steps = 0 /\ reported = -1
  /\ mi_pc = "idle" /\ corpus = <<>> /\ context_sz = 0 /\ mi_i = 1
  /\ data = <<>> /\ labels = <<>>

\* for epoch in xrange(epochs): if done_looping: break
ForEpoch ==
  /\ pc = "for_epoch"
  /\ IF epoch + 1 < epochs
       THEN /\ epoch' = epoch + 1
            /\ IF done_looping
                 THEN pc' = "summary" /\ mb_iter' = mb_iter
                 ELSE pc' = "for_minibatch" /\ mb_iter' = 0
       ELSE pc' = "summary" /\ UNCHANGED <<epoch, mb_iter>>
  /\ UNCHANGED <<cfgvars, exc, itr, patience, learning_rate,
                 last_epoch_dev_ppl, best_dev_ppl, test_ppl, done_looping,
                 modvars, obsvars, mivars>>

\* for minibatch_index in xrange(n_train_batches): exhausted
ForMinibatchExhausted ==
  /\ pc = "for_minibatch" /\ mb_iter >= n_train_batches
  /\ pc' = "epoch_end"
  /\ UNCHANGED <<cfgvars, exc, epoch, mb_iter, itr, patience, learning_rate,
                 last_epoch_dev_ppl, best_dev_ppl, test_ppl, done_looping,
                 modvars, obsvars, mivars>>

\* the body of the minibatch loop: train_model, the iteration number, the
\* validation checkpoint and the patience test
MinibatchStep ==
  /\ pc = "for_minibatch" /\ mb_iter < n_train_batches
  /\ \E g \in Gradients, d \in PplAfter(dev_now), t \in PplAfter(test_now) :
       LET i == epoch * n_train_batches + mb_iter
           chk == i % validation_freq = 0
           crash == chk /\ ~ValidationBlockResolves
           improves == chk /\ ~crash /\ PplLt(d, best_dev_ppl)
           extend == improves /\ Truthy(patience)
                              /\ PplLtThrs(d, best_dev_ppl)
           pat == IF extend THEN <<Max(patience[1], i * patience_incr)>>
                            ELSE patience
           stop == ~crash /\ Truthy(pat) /\ pat[1] <= i
       IN
         \* train_model(minibatch_index): updates compiled with updates_rate
         /\ params' = [p \in ParamNames |->
                          SgdUpdate(params[p], updates_rate, g[p])]
         /\ dev_now' = d /\ test_now' = t
         /\ itr' = i
         /\ checkpoint_log' = IF chk THEN Append(checkpoint_log, <<d, t>>)
                                     ELSE checkpoint_log
         /\ best_dev_ppl' = IF improves THEN d ELSE best_dev_ppl
         /\ test_ppl' = IF improves THEN t ELSE test_ppl
         /\ patience' = pat
         /\ done_looping' = (done_looping \/ stop)
         /\ IF crash THEN pc' = "raised" /\ exc' = "NameError"
                          /\ mb_iter' = mb_iter
            ELSE IF stop THEN pc' = "epoch_end" /\ exc' = exc
                              /\ mb_iter' = mb_iter
            ELSE pc' = "for_minibatch" /\ exc' = exc
                 /\ mb_iter' = mb_iter + 1
         \* observations
         /\ steps' = steps + 1
         /\ prev_params' = params /\ last_grad' = g
         /\ step_lr' = learning_rate
         /\ stepped_epochs' = stepped_epochs + (IF mb_iter = 0 THEN 1 ELSE 0)
         /\ late_steps' = late_steps + (IF reached THEN 1 ELSE 0)
         /\ reached' = (reached \/ (~crash /\ Truthy(pat) /\ i >= pat[1]))
  /\ UNCHANGED <<cfgvars, epoch, learning_rate, last_epoch_dev_ppl,
                 updates_rate, lr_before, epoch_end_ppls, epochs_done,
                 reported, mivars>>

\* adapt learning rate (after the minibatch loop of an epoch)
EpochEnd ==
  /\ pc = "epoch_end"
  /\ lr_before' = learning_rate
  /\ IF rate_update = "simple"
       THEN /\ learning_rate' = SimpleRate(epoch)
            /\ UNCHANGED <<last_epoch_dev_ppl, epoch_end_ppls>>
       ELSE IF rate_update = "adaptive"
       THEN /\ learning_rate' =
                 AdaptiveRate(learning_rate, dev_now, last_epoch_dev_ppl)
            /\ last_epoch_dev_ppl' = dev_now
            /\ epoch_end_ppls' = Append(epoch_end_ppls, dev_now)
       ELSE UNCHANGED <<learning_rate, last_epoch_dev_ppl, epoch_end_ppls>>
  /\ IF rate_update \in ValidRates
       THEN pc' = "for_epoch" /\ exc' = exc /\ epochs_done' = epochs_done + 1
       ELSE pc' = "raised" /\ exc' = "ValueError" /\ epochs_done' = epochs_done
  /\ UNCHANGED <<cfgvars, epoch, mb_iter, itr, patience, best_dev_ppl,
                 test_ppl, done_looping, modvars, steps, prev_params,
                 last_grad, step_lr, checkpoint_log, stepped_epochs, reached,
                 late_steps, reported, mivars>>

\* the final summary: 'Training took %d epochs' % (epoch + 1); epoch is
\* unbound when the epoch loop never ran
Summary ==
  /\ pc = "summary"
  /\ IF epoch = -1
       THEN pc' = "raised" /\ exc' = "UnboundLocalError" /\ reported' = reported
       ELSE pc' = "done" /\ exc' = exc /\ reported' = epoch + 1
  /\ UNCHANGED <<cfgvars, epoch, mb_iter, itr, patience, learning_rate,
                 last_epoch_dev_ppl, best_dev_ppl, test_ppl, done_looping,
                 modvars, steps, prev_params, last_grad, step_lr, lr_before,
                 epoch_end_ppls, checkpoint_log, stepped_epochs, epochs_done,
                 reached, late_steps, mivars>>

Next ==
  \/ ForEpoch
  \/ ForMinibatchExhausted
  \/ MinibatchStep
  \/ EpochEnd
  \/ Summary

Spec == Init /\ [][Next]_vars

\* ---------------------------------------------------------- make_instances

Words == {"a", "zz"}
RECURSIVE SeqsUpTo(_, _)
SeqsUpTo(S, n) ==
  IF n = 0 THEN {<<>>}
  ELSE LET shorter == SeqsUpTo(S, n - 1)
       IN shorter \cup {Append(s, x) : s \in shorter, x \in S}
Sentences == SeqsUpTo(Words, MaxLen)
Corpora == SeqsUpTo(Sentences, MaxSentences) \ {<<>>}

\* the vocabulary built from the training corpus plus '<s>' and '</s>';
\* a word it does not hold resolves to the id of '<unk>'
lookup_id(w) ==
  CASE w = "a" -> 1
    [] w = "<s>" -> 2
    [] w = "</s>" -> 3
    [] OTHER -> 0
doc_words_to_ids(sentence) ==
  [k \in 1..Len(sentence) |-> lookup_id(sentence[k])]

Rep(x, n) == [k \in 1..n |-> x]
\* mutant of Pad: the end-of-sentence context is left out
PadStartOnly(sentence, c) == Rep("<s>", c) \o sentence

\* ['<s>'] * context_sz + sentence + ['</s>'] * context_sz
Pad(sentence, c) == Rep("<s>", c) \o sentence \o Rep("</s>", c)
\* sentence[i:]
Suffix(s, i) == IF i >= Len(s) THEN <<>> ELSE SubSeq(s, i + 1, Len(s))
\* zip(*(sentence[i:] for i in xrange(context_sz+1))): as many tuples as the
\* shortest suffix has elements
ZipSuffixes(s, c) ==
  LET suf == [i \in 0..c |-> Suffix(s, i)]
      n == CHOOSE m \in {Len(suf[i]) : i \in 0..c} :
             \A i \in 0..c : m <= Len(suf[i])
  IN [k \in 1..n |-> [j \in 1..(c + 1) |-> suf[j - 1][k]]]
\* instance[:-1] and instance[-1]
AllButLast(t) == SubSeq(t, 1, Len(t) - 1)

TrainerIdle ==
  /\ rate_update = "constant" /\ epochs = 0 /\ n_train_batches = 0
  /\ validation_freq = 1 /\ patience = None
  /\ learning_rate = <<1, 1>> /\ updates_rate = <<1, 1>>
  /\ dev_now = NaN /\ test_now = NaN
  /\ params = [p \in ParamNames |-> <<0, 1>>]
  /\ pc = "idle" /\ exc = "none"
  /\ epoch = -1 /\ mb_iter = 0 /\ itr = -1
  /\ last_epoch_dev_ppl = Inf /\ best_dev_ppl = Inf /\ test_ppl = Inf
  /\ done_looping = FALSE
  /\ steps = 0 /\ prev_params = params
  /\ last_grad = [p \in ParamNames |-> 0]
  /\ step_lr = <<1, 1>> /\ lr_before = <<1, 1>>
  /\ epoch_end_ppls = <<>> /\ checkpoint_log = <<>>
  /\ stepped_epochs = 0 /\ epochs_done = 0
  /\ reached = FALSE /\ late_steps = 0 /\ reported = -1

\* make_instances(corpus, vocab, context_sz) entered: data = [], labels = []
InitMI ==
  /\ TrainerIdle
  /\ corpus \in Corpora
  /\ context_sz \in 0..MaxContext
  /\ mi_pc = "for_sentence" /\ mi_i = 1
  /\ data = <<>> /\ labels = <<>>

\* one iteration of 'for sentence in corpus'
MakeInstancesSentence ==
  /\ mi_pc = "for_sentence" /\ mi_i <= Len(corpus)
  /\ LET sentence == doc_words_to_ids(Pad(corpus[mi_i], context_sz))
         instances == ZipSuffixes(sentence, context_sz)
     IN /\ data' = data \o [k \in 1..Len(instances) |->
                              AllButLast(instances[k])]
        /\ labels' = labels \o [k \in 1..Len(instances) |->
                                  Last(instances[k])]
  /\ mi_i' = mi_i + 1
  /\ UNCHANGED <<mi_pc, corpus, context_sz, trainvars>>

\* the corpus is exhausted: return the instances
MakeInstancesReturn ==
  /\ mi_pc = "for_sentence" /\ mi_i > Len(corpus)
  /\ mi_pc' = "done"
  /\ UNCHANGED <<corpus, context_sz, mi_i, data, labels, trainvars>>

NextMI ==
  \/ MakeInstancesSentence
  \/ MakeInstancesReturn

SpecMI == InitMI /\ [][NextMI]_vars

\* ------------------------------------------------------------------ claims

Ended == pc \in {"raised", "done"}

\* C1: after the first minibatch step whose iteration number has reached the
\* patience no further train_model call is made, and without a patience
\* budget a run (here: one with a valid schedule name) does not end before
\* all `epochs` epochs were processed.
C1_EarlyStopping ==
  /\ late_steps = 0
  /\ (patience = None /\ rate_update \in ValidRates /\ Ended)
       => epochs_done = epochs

\* C2: a minibatch step whose checkpoint sees a dev perplexity that improves
\* on the best one and passes the relative threshold sets the (configured)
\* patience to max(old patience, itr * patience_incr); every other step of
\* the run leaves the patience as it was.
C2_PatienceExtension ==
  [][LET improving ==
           /\ steps' = steps + 1
           /\ itr' % validation_freq = 0
           /\ PplLt(dev_now', best_dev_ppl)
           /\ PplLtThrs(dev_now', best_dev_ppl)
           /\ patience # None
     IN IF improving
          THEN patience' = <<Max(patience[1], itr' * patience_incr)>>
          ELSE patience' = patience]_vars

C5_SimpleRate ==
  (rate_update = "simple" /\ epochs_done > 0) =>
    /\ learning_rate[2] > 0
    /\ learning_rate[1] * epochs_done = learning_rate[2]

C5_Witness ==
  /\ rate_update = "simple" /\ epochs_done = 2
  /\ RatEq(updates_rate, <<1, 2>>) /\ dev_now = 2
  /\ RatEq(learning_rate, <<1, 2>>)

\* C6: with a schedule name outside simple/adaptive/constant (and at least
\* one epoch to run) train_lbl ends in the ValueError of the first epoch
\* end, no later epoch being entered; with a valid name no ValueError.
C6_InvalidRateUpdate ==
  /\ (rate_update \notin ValidRates /\ epochs >= 1 /\ Ended)
       => (exc = "ValueError" /\ epoch = 0 /\ epochs_done = 0)
  /\ rate_update \in ValidRates => exc # "ValueError"

\* the least perplexity of a checkpoint log (Inf when none is a number) and
\* the test perplexity taken at the first checkpoint that reached it
MinDev(log) ==
  LET nums == {log[k][1] : k \in {j \in 1..Len(log) : log[j][1] # NaN}}
  IN IF nums = {} THEN Inf
     ELSE CHOOSE m \in nums : \A x \in nums : m <= x
TestAtMin(log) ==
  IF MinDev(log) = Inf THEN Inf
  ELSE LET first == CHOOSE k \in 1..Len(log) :
                      /\ log[k][1] = MinDev(log)
                      /\ \A j \in 1..(k - 1) : log[j][1] # MinDev(log)
       IN log[first][2]

\* C7: best_dev_ppl is the least dev perplexity of all validation
\* checkpoints so far (infinity if none) and test_ppl is the test perplexity
\* of the checkpoint that last set best_dev_ppl.
C7_BestDevPpl ==
  /\ best_dev_ppl = MinDev(checkpoint_log)
  /\ test_ppl = TestAtMin(checkpoint_log)

\* C9: with a valid schedule name, epochs >= 1 and at least one training
\* minibatch, a run takes its validation checkpoints (at the iterations
\* with itr % validation_freq = 0) without an error, and when it has ended
\* it is in the Terminal state after at most `epochs` epochs.
C9_CheckpointsThenTerminal ==
  (rate_update \in ValidRates /\ epochs >= 1 /\ n_train_batches >= 1) =>
    /\ exc = "none"
    /\ Ended => (pc = "done" /\ epochs_done <= epochs)

\* C10: the epoch count of the final summary (epoch + 1) is the number of
\* epochs in which at least one minibatch step was executed.
C10_ReportedEpochs ==
  pc = "done" => reported = stepped_epochs

\* the padded id sequence of a sentence, position by position
PaddedId(sentence, c, m) ==
  IF m <= c THEN lookup_id("<s>")
  ELSE IF m <= c + Len(sentence) THEN lookup_id(sentence[m - c])
  ELSE lookup_id("</s>")
RECURSIVE InstancesBefore(_)
InstancesBefore(j) ==
  IF j <= 1 THEN 0
  ELSE InstancesBefore(j - 1) + Len(corpus[j - 1]) + context_sz

\* C8: every processed sentence of length n contributes exactly n + c
\* instances, in window order; the k-th has as context the c ids at
\* positions k .. k+c-1 of the sentence padded with c start and c end
\* markers, and as target the id at position k+c.
C8_MakeInstances ==
  mi_pc \in {"for_sentence", "done"} =>
    /\ Len(data) = InstancesBefore(mi_i)
    /\ Len(labels) = Len(data)
    /\ \A j \in 1..(mi_i - 1) :
         \A k \in 1..(Len(corpus[j]) + context_sz) :
           LET at == InstancesBefore(j) + k
           IN /\ Len(data[at]) = context_sz
              /\ \A m \in 1..context_sz :
                   data[at][m] = PaddedId(corpus[j], context_sz, k + m - 1)
              /\ labels[at] = PaddedId(corpus[j], context_sz, k + context_sz)

C8_Witness ==
  /\ mi_pc = "done" /\ context_sz = 2
  /\ corpus = << <<"a", "zz">>, <<>> >>
  /\ data = << <<2, 2>>, <<2, 1>>, <<1, 0>>, <<0, 3>>, <<2, 2>>, <<2, 3>> >>
  /\ labels = <<1, 0, 3, 3, 3, 3>>

====
